---- MODULE Spec2Model ----
(***************************************************************************)
(* Model of rlox: the scanner (src/src/scanner.rs) and the recursive       *)
(* descent expression parser (src/src/ast.rs).                             *)
(*                                                                         *)
(* Characters are one-character strings, a source text is a sequence of    *)
(* characters.  Rust indexes from 0, TLA+ sequences from 1: source[i] of   *)
(* the code is source[i + 1] here.                                         *)
(***************************************************************************)
EXTENDS Integers, Sequences, FiniteSets, TLC

VARIABLES scanner,   \* the Scanner struct: source, tokens, start, current, line
          stdout,    \* lines printed by Scanner::error
          spans,     \* history: <<start, current>> of every add_token call
          parser,    \* the Parser struct: current, tokens
          errlog,    \* history: every Err value built during parse()
          calls,     \* history: the entries, loop rounds and cursor moves
                     \* of parse(), in order
          result,    \* what parse() returned
          panicked,  \* an index or slice was out of range
          pc         \* position in the pipeline

vars ==
    <<scanner, stdout, spans, parser, errlog, calls, result, panicked, pc>>

----------------------------------------------------------------------------
(* Bounds *)

MaxSrcLen == 4
MaxWords == 5
MaxLiveLen == 3

----------------------------------------------------------------------------
(* Characters *)

NUL == "NUL"
NL == "\n"
TAB == "\t"
CR == "\r"
QUOTE == "\""

Digits == {"0", "1", "2", "3", "4", "5", "6", "7", "8", "9"}

Letters ==
    {"a", "b", "c", "d", "e", "f", "g", "h", "i", "j", "k", "l", "m",
     "n", "o", "p", "q", "r", "s", "t", "u", "v", "w", "x", "y", "z",
     "A", "B", "C", "D", "E", "F", "G", "H", "I", "J", "K", "L", "M",
     "N", "O", "P", "Q", "R", "S", "T", "U", "V", "W", "X", "Y", "Z"}

DigitValue(c) ==
    CASE c = "0" -> 0 [] c = "1" -> 1 [] c = "2" -> 2 [] c = "3" -> 3
      [] c = "4" -> 4 [] c = "5" -> 5 [] c = "6" -> 6 [] c = "7" -> 7
      [] c = "8" -> 8 [] c = "9" -> 9

----------------------------------------------------------------------------
(* Tokens *)

\* A TokenType without payload.
TT(tag) == [tag |-> tag]

\* Identifier(String), String(String), Number(f64).
TTPayload(tag, val) == [tag |-> tag, val |-> val]

PayloadTags == {"Identifier", "String", "Number"}

\* Equality of two TokenType values: the variant first, then its payload.
TokenTypeEq(a, b) ==
    /\ a.tag = b.tag
    /\ (a.tag \in PayloadTags => a.val = b.val)

Token_new(token_type, lexeme, line) ==
    [token_type |-> token_type, lexeme |-> lexeme, line |-> line]

\* The reserved-word table built by Scanner::new.
reserved ==
    {<< <<"a", "n", "d">>, "And" >>,
     << <<"c", "l", "a", "s", "s">>, "Class" >>,
     << <<"e", "l", "s", "e">>, "Else" >>,
     << <<"f", "a", "l", "s", "e">>, "False" >>,
     << <<"f", "o", "r">>, "For" >>,
     << <<"f", "u", "n">>, "Fun" >>,
     << <<"i", "f">>, "If" >>,
     << <<"n", "i", "l">>, "Nil" >>,
     << <<"o", "r">>, "Or" >>,
     << <<"p", "r", "i", "n", "t">>, "Print" >>,
     << <<"r", "e", "t", "u", "r", "n">>, "Return" >>,
     << <<"s", "u", "p", "e", "r">>, "Super" >>,
     << <<"t", "h", "i", "s">>, "This" >>,
     << <<"t", "r", "u", "e">>, "True" >>,
     << <<"v", "a", "r">>, "Var" >>,
     << <<"w", "h", "i", "l", "e">>, "While" >>}

----------------------------------------------------------------------------
(* Scanner.  The operators below work on a record s that holds the fields  *)
(* of the Scanner struct together with the history fields out, spans and   *)
(* panic.                                                                  *)

\* The value of a one-element set: Val({e(x) : x \in {v}}) is e with x
\* bound to the value v, computed once.
Val(S) == CHOOSE x \in S : TRUE

Scanner_new(source) ==
    [source |-> source, tokens |-> <<>>, start |-> 0, current |-> 0,
     line |-> 1]

Scanner_is_at_end(s) == s.current >= Len(s.source)

\* source[i], NUL standing for the value of a read that panicked.
CharAt(source, i) ==
    IF i >= 0 /\ i < Len(source) THEN source[i + 1] ELSE NUL

\* advance(): current += 1, returns source[current - 1].
Scanner_advance(s) ==
    [s EXCEPT !.current = @ + 1,
              !.panic = @ \/ s.current >= Len(s.source)]

Scanner_advance_char(s) == CharAt(s.source, s.current)

Scanner_peek(s) ==
    IF Scanner_is_at_end(s) THEN NUL ELSE CharAt(s.source, s.current)

Scanner_peek_next(s) ==
    IF s.current + 1 >= Len(s.source) THEN NUL
    ELSE CharAt(s.source, s.current + 1)

\* match_char reporting a match without consuming the character.
Scanner_match_char_NoConsume(s, expected) ==
    IF Scanner_is_at_end(s) THEN [s |-> s, matched |-> FALSE]
    ELSE IF CharAt(s.source, s.current) # expected
         THEN [s |-> s, matched |-> FALSE]
         ELSE [s |-> s, matched |-> TRUE]

\* match_char(expected): [s, matched].
Scanner_match_char(s, expected) ==
    IF Scanner_is_at_end(s) THEN [s |-> s, matched |-> FALSE]
    ELSE IF CharAt(s.source, s.current) # expected
         THEN [s |-> s, matched |-> FALSE]
         ELSE [s |-> [s EXCEPT !.current = @ + 1], matched |-> TRUE]

\* source[from..to], the empty slice standing for a slice that panicked.
Slice(source, from, to) ==
    IF from >= 0 /\ from <= to /\ to <= Len(source)
    THEN SubSeq(source, from + 1, to)
    ELSE <<>>

SliceOk(source, from, to) == from >= 0 /\ from <= to /\ to <= Len(source)

Scanner_add_token(s, token) ==
    [s EXCEPT !.tokens = Append(@, Token_new(token,
                                   Slice(s.source, s.start, s.current),
                                   s.line)),
              !.spans = Append(@, <<s.start, s.current>>),
              !.panic = @ \/ ~SliceOk(s.source, s.start, s.current)]

Scanner_error(s, message) ==
    [s EXCEPT !.out = Append(@, [line |-> s.line, message |-> message])]

Scanner_is_digit(c) == c \in Digits

Scanner_is_alpha(c) == c \in Letters \/ c = "_"

Scanner_is_alpha_numeric(c) == Scanner_is_alpha(c) \/ Scanner_is_digit(c)

\* The loop of string() not counting the newlines it consumes.
RECURSIVE Scanner_string_loop_NoCount(_)
Scanner_string_loop_NoCount(s) ==
    IF Scanner_peek(s) # QUOTE /\ ~Scanner_is_at_end(s)
    THEN Val({Scanner_string_loop_NoCount(s1)
              : s1 \in {Scanner_advance(s)}})
    ELSE s

\* The loop of string(): up to the closing quote or the end of the source.
RECURSIVE Scanner_string_loop(_)
Scanner_string_loop(s) ==
    IF Scanner_peek(s) # QUOTE /\ ~Scanner_is_at_end(s)
    THEN Val({Scanner_string_loop(s1)
              : s1 \in {Scanner_advance(IF Scanner_peek(s) = NL
                                        THEN [s EXCEPT !.line = @ + 1]
                                        ELSE s)}})
    ELSE s

\* string() without the test for the end of the source behind its loop.
Scanner_string_NoEndCheck(s) ==
    Val({Scanner_add_token(
             [s2 EXCEPT !.panic =
                  @ \/ ~SliceOk(s2.source, s2.start + 1, s2.current - 1)],
             TTPayload("String",
                       Slice(s2.source, s2.start + 1, s2.current - 1)))
         : s2 \in {Scanner_advance(Scanner_string_loop(s))}})

\* string() keeping the quotes in the literal text.
Scanner_string_WithQuotes(s) ==
    Val({IF Scanner_is_at_end(s1)
         THEN Scanner_error(s1, "Unterminated string.")
         ELSE Val({Scanner_add_token(s2,
                       TTPayload("String",
                                 Slice(s2.source, s2.start, s2.current)))
                   : s2 \in {Scanner_advance(s1)}})
         : s1 \in {Scanner_string_loop(s)}})

Scanner_string(s) ==
    Val({IF Scanner_is_at_end(s1)
         THEN Scanner_error(s1, "Unterminated string.")
         ELSE Val({Scanner_add_token(
                       [s2 EXCEPT !.panic =
                            @ \/ ~SliceOk(s2.source, s2.start + 1,
                                          s2.current - 1)],
                       TTPayload("String",
                                 Slice(s2.source, s2.start + 1,
                                       s2.current - 1)))
                   : s2 \in {Scanner_advance(s1)}})
         : s1 \in {Scanner_string_loop(s)}})

\* while is_digit(peek()) { advance(); }
RECURSIVE Scanner_digits_loop(_)
Scanner_digits_loop(s) ==
    IF Scanner_is_digit(Scanner_peek(s))
    THEN Val({Scanner_digits_loop(s1) : s1 \in {Scanner_advance(s)}})
    ELSE s

RECURSIVE DigitsValue(_)
DigitsValue(ds) ==
    IF ds = <<>> THEN 0
    ELSE 10 * DigitsValue(SubSeq(ds, 1, Len(ds) - 1)) + DigitValue(ds[Len(ds)])

RECURSIVE Pow10(_)
Pow10(n) == IF n = 0 THEN 1 ELSE 10 * Pow10(n - 1)

\* A decimal fraction num/den reduced to the smallest power of ten den.
RECURSIVE Reduce10(_, _)
Reduce10(num, den) ==
    IF den > 1 /\ num % 10 = 0 THEN Reduce10(num \div 10, den \div 10)
    ELSE <<num, den>>

DotIndex(slice) ==
    IF \E i \in 1..Len(slice) : slice[i] = "."
    THEN CHOOSE i \in 1..Len(slice) :
             slice[i] = "." /\ \A j \in 1..(i - 1) : slice[j] # "."
    ELSE 0

\* str::parse::<f64>() on the slices number() builds: digits, optionally
\* followed by a dot and digits.  The value is the pair <<num, den>> of the
\* reduced decimal fraction, so "1", "01" and "1.0" are the same number.
ParseF64(slice) ==
    LET dot == DotIndex(slice)
        int == IF dot = 0 THEN slice ELSE SubSeq(slice, 1, dot - 1)
        frac == IF dot = 0 THEN <<>> ELSE SubSeq(slice, dot + 1, Len(slice))
        wellformed ==
            /\ slice # <<>>
            /\ \A i \in 1..Len(int) : int[i] \in Digits
            /\ \A i \in 1..Len(frac) : frac[i] \in Digits
            /\ int # <<>> \/ frac # <<>>
    IN IF wellformed
       THEN [ok |-> TRUE,
             val |-> Reduce10(DigitsValue(int) * Pow10(Len(frac))
                                + DigitsValue(frac),
                              Pow10(Len(frac)))]
       ELSE [ok |-> FALSE, val |-> <<0, 1>>]

\* number() taking the dot into the literal whatever follows it.
Scanner_number_EagerDot(s) ==
    Val({Val({Val({Scanner_add_token(
                       IF parsed.ok THEN s2
                       ELSE Scanner_error(s2, "Failed to parse digit"),
                       TTPayload("Number", parsed.val))
                   : parsed \in {ParseF64(Slice(s2.source, s2.start,
                                                s2.current))}})
              : s2 \in {IF Scanner_peek(s1) = "."
                        THEN Scanner_digits_loop(Scanner_advance(s1))
                        ELSE s1}})
         : s1 \in {Scanner_digits_loop(s)}})

Scanner_number(s) ==
    Val({Val({Val({Scanner_add_token(
                       IF parsed.ok THEN s2
                       ELSE Scanner_error(s2, "Failed to parse digit"),
                       TTPayload("Number", parsed.val))
                   : parsed \in {ParseF64(Slice(s2.source, s2.start,
                                                s2.current))}})
              : s2 \in {IF Scanner_peek(s1) = "."
                           /\ Scanner_is_digit(Scanner_peek_next(s1))
                        THEN Scanner_digits_loop(Scanner_advance(s1))
                        ELSE s1}})
         : s1 \in {Scanner_digits_loop(s)}})

\* while is_alpha_numeric(peek()) { advance(); }
RECURSIVE Scanner_identifier_loop(_)
Scanner_identifier_loop(s) ==
    IF Scanner_is_alpha_numeric(Scanner_peek(s))
    THEN Val({Scanner_identifier_loop(s1) : s1 \in {Scanner_advance(s)}})
    ELSE s

\* identifier() taking a run that begins with a reserved word for the word.
Scanner_identifier_Prefix(s) ==
    Val({LET slice == Slice(s1.source, s1.start, s1.current)
             hits == {e \in reserved :
                         /\ Len(e[1]) <= Len(slice)
                         /\ SubSeq(slice, 1, Len(e[1])) = e[1]}
         IN IF hits # {}
            THEN Scanner_add_token(s1, TT((CHOOSE e \in hits : TRUE)[2]))
            ELSE Scanner_add_token(s1, TTPayload("Identifier", slice))
         : s1 \in {Scanner_identifier_loop(s)}})

Scanner_identifier(s) ==
    Val({LET slice == Slice(s1.source, s1.start, s1.current)
         IN IF \E e \in reserved : e[1] = slice
            THEN Scanner_add_token(s1,
                     TT((CHOOSE e \in reserved : e[1] = slice)[2]))
            ELSE Scanner_add_token(s1, TTPayload("Identifier", slice))
         : s1 \in {Scanner_identifier_loop(s)}})

\* The comment loop consuming the newline that ends the comment.
RECURSIVE Scanner_comment_loop_EatNewline(_)
Scanner_comment_loop_EatNewline(s) ==
    IF Scanner_is_at_end(s) THEN s
    ELSE IF Scanner_peek(s) = NL THEN Scanner_advance(s)
    ELSE Val({Scanner_comment_loop_EatNewline(s1)
              : s1 \in {Scanner_advance(s)}})

\* while (peek() != '\n') && !is_at_end() { advance(); }
RECURSIVE Scanner_comment_loop(_)
Scanner_comment_loop(s) ==
    IF Scanner_peek(s) # NL /\ ~Scanner_is_at_end(s)
    THEN Val({Scanner_comment_loop(s1) : s1 \in {Scanner_advance(s)}})
    ELSE s

\* The arms '!', '=', '<', '>' of scan_token.
Scanner_two_char(s, bare, with_equal) ==
    Val({IF m.matched THEN Scanner_add_token(m.s, TT(with_equal))
         ELSE Scanner_add_token(m.s, TT(bare))
         : m \in {Scanner_match_char(s, "=")}})

Scanner_scan_token(s) ==
    Val({Val({
      CASE c = "(" -> Scanner_add_token(s1, TT("LeftParen"))
        [] c = ")" -> Scanner_add_token(s1, TT("RightParen"))
        [] c = "{" -> Scanner_add_token(s1, TT("LeftBrace"))
        [] c = "}" -> Scanner_add_token(s1, TT("RightBrace"))
        [] c = "," -> Scanner_add_token(s1, TT("Comma"))
        [] c = "." -> Scanner_add_token(s1, TT("Dot"))
        [] c = "-" -> Scanner_add_token(s1, TT("Minus"))
        [] c = "+" -> Scanner_add_token(s1, TT("Plus"))
        [] c = ";" -> Scanner_add_token(s1, TT("Semicolon"))
        [] c = "*" -> Scanner_add_token(s1, TT("Star"))
        [] c = "!" -> Scanner_two_char(s1, "Bang", "BangEqual")
        [] c = "=" -> Scanner_two_char(s1, "Equal", "EqualEqual")
        [] c = "<" -> Scanner_two_char(s1, "Less", "LessEqual")
        [] c = ">" -> Scanner_two_char(s1, "Greater", "GreaterEqual")
        [] c = "/" ->
               Val({IF m.matched THEN Scanner_comment_loop(m.s)
                    ELSE Scanner_add_token(m.s, TT("Slash"))
                    : m \in {Scanner_match_char(s1, "/")}})
        [] c = " " -> s1
        [] c = TAB -> s1
        [] c = CR -> s1
        [] c = NL -> [s1 EXCEPT !.line = @ + 1]
        [] c = QUOTE -> Scanner_string(s1)
        [] OTHER ->
               IF Scanner_is_digit(c) THEN Scanner_number(s1)
               ELSE IF Scanner_is_alpha(c) THEN Scanner_identifier(s1)
               ELSE Scanner_error(s1, "Unknown character")
      : s1 \in {Scanner_advance(s)}})
      : c \in {Scanner_advance_char(s)}})

\* An iteration of the loop of scan_tokens with its assignment the wrong
\* way round: current = start.
Scanner_scan_step_Swapped(s) ==
    Scanner_scan_token([s EXCEPT !.current = s.start])

\* An iteration of the loop of scan_tokens that leaves start where it was.
Scanner_scan_step_KeepStart(s) == Scanner_scan_token(s)

\* One iteration of the loop of scan_tokens.
Scanner_scan_step(s) == Scanner_scan_token([s EXCEPT !.start = s.current])

\* scan_tokens returning without the EOF token.
Scanner_scan_end_NoEof(s) == s

\* The exit of scan_tokens: add_token(TokenType::EOF).
Scanner_scan_end(s) == Scanner_add_token(s, TT("EOF"))

RECURSIVE Scanner_scan_tokens(_)
Scanner_scan_tokens(s) ==
    IF ~Scanner_is_at_end(s)
    THEN Val({Scanner_scan_tokens(s1) : s1 \in {Scanner_scan_step(s)}})
    ELSE Scanner_scan_end(s)

\* The Scanner struct with the history fields, and back.
ScanState(sc, out, sp, panic) ==
    [source |-> sc.source, tokens |-> sc.tokens, start |-> sc.start,
     current |-> sc.current, line |-> sc.line,
     out |-> out, spans |-> sp, panic |-> panic]

ScannerOf(s) ==
    [source |-> s.source, tokens |-> s.tokens, start |-> s.start,
     current |-> s.current, line |-> s.line]

----------------------------------------------------------------------------
(* Expressions *)

Binary(left, operator, right) ==
    [node |-> "Binary", left |-> left, operator |-> operator, right |-> right]

Grouping(inner) == [node |-> "Grouping", inner |-> inner]

Literal(token) == [node |-> "Literal", token |-> token]

Unary(operator, right) ==
    [node |-> "Unary", operator |-> operator, right |-> right]

\* Result<Expr, &'static str>.
NoExpr == [node |-> "None"]

Ok(expr) == [ok |-> TRUE, expr |-> expr, msg |-> ""]

Err(msg) == [ok |-> FALSE, expr |-> NoExpr, msg |-> msg]

----------------------------------------------------------------------------
(* Parser.  The operators below work on a record p that holds the fields   *)
(* of the Parser struct together with the history fields log, trace and    *)
(* panic.                                                                  *)
(* A grammar function returns [p |-> the parser after the call, r |-> its   *)
(* Result].  A panic ends the parse: once p.panic is set no function does  *)
(* anything more, and parse() returns nothing.                             *)

Parser_new(tokens) == [current |-> 0, tokens |-> tokens]

\* The value of a token read that panicked.
NoToken == Token_new(TT("NoToken"), <<>>, 0)

TokenAt(tokens, i) ==
    IF i >= 0 /\ i < Len(tokens) THEN tokens[i + 1] ELSE NoToken

Parser_peek(p) == TokenAt(p.tokens, p.current)

Parser_previous(p) == TokenAt(p.tokens, p.current - 1)

PeekPanics(p) == ~(p.current >= 0 /\ p.current < Len(p.tokens))

PreviousPanics(p) == ~(p.current >= 1 /\ p.current - 1 < Len(p.tokens))

Parser_is_at_end(p) == TokenTypeEq(Parser_peek(p).token_type, TT("EOF"))

\* advance() with its test the wrong way round: moves only at EOF.
Parser_advance_Inverted(p) ==
    LET p1 == IF Parser_is_at_end(p) THEN [p EXCEPT !.current = @ + 1]
              ELSE p
    IN [p1 EXCEPT !.panic = @ \/ PeekPanics(p) \/ PreviousPanics(p1),
                  !.trace = Append(@, [ev |-> "advance", fn |-> "advance",
                                       at |-> p.current,
                                       to |-> p1.current])]

\* advance(): moves unless at EOF; its return value is Parser_previous of
\* the parser it returns.
Parser_advance(p) ==
    LET p1 == IF ~Parser_is_at_end(p) THEN [p EXCEPT !.current = @ + 1]
              ELSE p
    IN [p1 EXCEPT !.panic = @ \/ PeekPanics(p) \/ PreviousPanics(p1),
                  !.trace = Append(@, [ev |-> "advance", fn |-> "advance",
                                       at |-> p.current,
                                       to |-> p1.current])]

Parser_check(p, token_type) ==
    IF Parser_is_at_end(p) THEN FALSE
    ELSE TokenTypeEq(Parser_peek(p).token_type, token_type)

\* Records at the current cursor that function fn is entered (ev = "enter"),
\* that its loop begins a round (ev = "round"), or that check() found the
\* token kind fn (ev = "match" in match_token, "consume" in consume).
Note(p, ev, fn) ==
    [p EXCEPT !.trace = Append(@, [ev |-> ev, fn |-> fn, at |-> p.current,
                                   to |-> p.current])]

\* match_token leaving the token behind when no alternative is found.
RECURSIVE Parser_match_token_SkipOnMiss(_, _)
Parser_match_token_SkipOnMiss(p, types) ==
    IF types = <<>> THEN [p |-> Parser_advance(p), matched |-> FALSE]
    ELSE IF PeekPanics(p)
         THEN [p |-> [p EXCEPT !.panic = TRUE], matched |-> FALSE]
    ELSE IF Parser_check(p, Head(types))
         THEN [p |-> Parser_advance(Note(p, "match", Head(types).tag)),
               matched |-> TRUE]
         ELSE Parser_match_token_SkipOnMiss(p, Tail(types))

\* match_token(tokens): [p, matched]; the alternatives are tried in order.
RECURSIVE Parser_match_token(_, _)
Parser_match_token(p, types) ==
    IF types = <<>> THEN [p |-> p, matched |-> FALSE]
    ELSE IF PeekPanics(p)
         THEN [p |-> [p EXCEPT !.panic = TRUE], matched |-> FALSE]
    ELSE IF Parser_check(p, Head(types))
         THEN [p |-> Parser_advance(Note(p, "match", Head(types).tag)),
               matched |-> TRUE]
         ELSE Parser_match_token(p, Tail(types))

\* Records an Err value built by function fn at the current cursor.
LogErr(p, fn, msg) ==
    [p EXCEPT !.log = Append(@, [fn |-> fn, msg |-> msg, at |-> p.current])]

Fail(p, fn, msg) == [p |-> LogErr(p, fn, msg), r |-> Err(msg)]

Parser_consume(p, token_type, message) ==
    IF PeekPanics(p) THEN [p |-> [p EXCEPT !.panic = TRUE], r |-> Err(message)]
    ELSE IF Parser_check(p, token_type)
         THEN [p |-> Parser_advance(Note(p, "consume", token_type.tag)),
               r |-> Ok(NoExpr)]
         ELSE Fail(p, "consume", message)

RECURSIVE Parser_expression(_)
RECURSIVE Parser_equality(_)
RECURSIVE Parser_equality_loop(_, _)
RECURSIVE Parser_comparison(_)
RECURSIVE Parser_comparison_loop(_, _)
RECURSIVE Parser_addition(_)
RECURSIVE Parser_addition_loop(_, _)
RECURSIVE Parser_multiplication(_)
RECURSIVE Parser_multiplication_loop(_, _)
RECURSIVE Parser_unary(_)
RECURSIVE Parser_grouping(_)
RECURSIVE Parser_primary(_)

Parser_expression(p) ==
    Parser_equality(Note(p, "enter", "expression"))

Parser_equality(p) ==
    Val({Parser_equality_loop(first.p, first.r) : first \in {Parser_comparison(p)}})

\* The while loop of equality(), expr being its variable expr.
Parser_equality_loop(p, expr) ==
    IF p.panic THEN [p |-> p, r |-> expr] ELSE
    Val({IF m.matched
         THEN Val({IF right.r.ok /\ expr.ok
                   THEN Parser_equality_loop(right.p,
                            Ok(Binary(expr.expr, Parser_previous(m.p),
                                      right.r.expr)))
                   ELSE Fail(right.p, "equality", "expecting equality")
                   : right \in {Parser_comparison(
                                 Note(m.p, "round", "equality"))}})
         ELSE [p |-> m.p, r |-> expr]
         : m \in {Parser_match_token(p, <<TT("BangEqual"), TT("EqualEqual")>>)}})

Parser_comparison(p) ==
    Val({Parser_comparison_loop(first.p, first.r) : first \in {Parser_addition(p)}})

Parser_comparison_loop(p, expr) ==
    IF p.panic THEN [p |-> p, r |-> expr] ELSE
    Val({IF m.matched
         THEN Val({IF right.r.ok /\ expr.ok
                   THEN Parser_comparison_loop(right.p,
                            Ok(Binary(expr.expr, Parser_previous(m.p),
                                      right.r.expr)))
                   ELSE Fail(right.p, "comparison", "expecting comparison")
                   : right \in {Parser_addition(
                                 Note(m.p, "round", "comparison"))}})
         ELSE [p |-> m.p, r |-> expr]
         : m \in {Parser_match_token(p, <<TT("Greater"), TT("GreaterEqual"),
                                      TT("Less"), TT("LessEqual")>>)}})

Parser_addition(p) ==
    Val({Parser_addition_loop(first.p, first.r) : first \in {Parser_multiplication(p)}})

\* addition() parsing its right operand with addition(): right-associative.
Parser_addition_loop_RightAssoc(p, expr) ==
    IF p.panic THEN [p |-> p, r |-> expr] ELSE
    Val({IF m.matched
         THEN Val({IF right.r.ok /\ expr.ok
                   THEN Parser_addition_loop(right.p,
                            Ok(Binary(expr.expr, Parser_previous(m.p),
                                      right.r.expr)))
                   ELSE Fail(right.p, "addition", "expecting addition")
                   : right \in {Parser_addition(
                                 Note(m.p, "round", "addition"))}})
         ELSE [p |-> m.p, r |-> expr]
         : m \in {Parser_match_token(p, <<TT("Plus"), TT("Minus")>>)}})

\* addition() returning its left operand when the right operand failed.
Parser_addition_loop_KeepLeft(p, expr) ==
    IF p.panic THEN [p |-> p, r |-> expr] ELSE
    Val({IF m.matched
         THEN Val({IF right.r.ok /\ expr.ok
                   THEN Parser_addition_loop(right.p,
                            Ok(Binary(expr.expr, Parser_previous(m.p),
                                      right.r.expr)))
                   ELSE [p |-> right.p, r |-> expr]
                   : right \in {Parser_multiplication(
                                 Note(m.p, "round", "addition"))}})
         ELSE [p |-> m.p, r |-> expr]
         : m \in {Parser_match_token(p, <<TT("Plus"), TT("Minus")>>)}})

Parser_addition_loop(p, expr) ==
    IF p.panic THEN [p |-> p, r |-> expr] ELSE
    Val({IF m.matched
         THEN Val({IF right.r.ok /\ expr.ok
                   THEN Parser_addition_loop(right.p,
                            Ok(Binary(expr.expr, Parser_previous(m.p),
                                      right.r.expr)))
                   ELSE Fail(right.p, "addition", "expecting addition")
                   : right \in {Parser_multiplication(
                                 Note(m.p, "round", "addition"))}})
         ELSE [p |-> m.p, r |-> expr]
         : m \in {Parser_match_token(p, <<TT("Plus"), TT("Minus")>>)}})

Parser_multiplication(p) ==
    Val({Parser_multiplication_loop(first.p, first.r) : first \in {Parser_unary(p)}})

Parser_multiplication_loop(p, expr) ==
    IF p.panic THEN [p |-> p, r |-> expr] ELSE
    Val({IF m.matched
         THEN Val({IF right.r.ok /\ expr.ok
                   THEN Parser_multiplication_loop(right.p,
                            Ok(Binary(expr.expr, Parser_previous(m.p),
                                      right.r.expr)))
                   ELSE Fail(right.p, "multiplication", "expecting multiplication")
                   : right \in {Parser_unary(
                                 Note(m.p, "round", "multiplication"))}})
         ELSE [p |-> m.p, r |-> expr]
         : m \in {Parser_match_token(p, <<TT("Star"), TT("Slash")>>)}})

\* unary() taking + for a prefix operator as well.
Parser_unary_PlusPrefix(p) ==
    IF p.panic THEN [p |-> p, r |-> Err("panic")] ELSE
    Val({IF m.matched
         THEN Val({IF right.r.ok
                   THEN [p |-> right.p,
                         r |-> Ok(Unary(Parser_previous(m.p), right.r.expr))]
                   ELSE Fail(right.p, "unary", "expecting unary")
                   : right \in {Parser_unary(m.p)}})
         ELSE Val({IF primary.r.ok
                   THEN [p |-> primary.p, r |-> Ok(primary.r.expr)]
                   ELSE Fail(primary.p, "unary", "expecting primary")
                   : primary \in {Parser_primary(m.p)}})
         : m \in {Parser_match_token(Note(p, "enter", "unary"),
                                      <<TT("Bang"), TT("Minus"),
                                        TT("Plus")>>)}})

\* unary() parsing the operand of a prefix operator with primary().
Parser_unary_NoChain(p) ==
    IF p.panic THEN [p |-> p, r |-> Err("panic")] ELSE
    Val({IF m.matched
         THEN Val({IF right.r.ok
                   THEN [p |-> right.p,
                         r |-> Ok(Unary(Parser_previous(m.p), right.r.expr))]
                   ELSE Fail(right.p, "unary", "expecting unary")
                   : right \in {Parser_primary(m.p)}})
         ELSE Val({IF primary.r.ok
                   THEN [p |-> primary.p, r |-> Ok(primary.r.expr)]
                   ELSE Fail(primary.p, "unary", "expecting primary")
                   : primary \in {Parser_primary(m.p)}})
         : m \in {Parser_match_token(Note(p, "enter", "unary"),
                                      <<TT("Bang"), TT("Minus")>>)}})

Parser_unary(p) ==
    IF p.panic THEN [p |-> p, r |-> Err("panic")] ELSE
    Val({IF m.matched
         THEN Val({IF right.r.ok
                   THEN [p |-> right.p,
                         r |-> Ok(Unary(Parser_previous(m.p), right.r.expr))]
                   ELSE Fail(right.p, "unary", "expecting unary")
                   : right \in {Parser_unary(m.p)}})
         ELSE Val({IF primary.r.ok
                   THEN [p |-> primary.p, r |-> Ok(primary.r.expr)]
                   ELSE Fail(primary.p, "unary", "expecting primary")
                   : primary \in {Parser_primary(m.p)}})
         : m \in {Parser_match_token(Note(p, "enter", "unary"),
                                      <<TT("Bang"), TT("Minus")>>)}})

\* The three keyword tests of primary(): False, True and Nil in turn, each
\* returning Literal(previous()).
Parser_primary_keyword(p) ==
    Parser_match_token(p, <<TT("False"), TT("True"), TT("Nil")>>)

\* primary() going on when the closing parenthesis is missing.
Parser_grouping_NoClose(p) ==
    Val({Val({IF expr.r.ok
              THEN [p |-> consumed.p, r |-> Ok(Grouping(expr.r.expr))]
              ELSE Fail(consumed.p, "primary", "expecting grouping")
              : consumed \in {Parser_consume(expr.p, TT("RightParen"),
                                  "Expect ')' after expression")}})
         : expr \in {Parser_expression(p)}})

\* The body of the LeftParen branch of primary(), p being the parser after
\* the parenthesis.
Parser_grouping(p) ==
    Val({Val({IF ~consumed.r.ok
              THEN Fail(consumed.p, "primary", "Expect ')' after expression")
              ELSE IF expr.r.ok
              THEN [p |-> consumed.p, r |-> Ok(Grouping(expr.r.expr))]
              ELSE Fail(consumed.p, "primary", "expecting grouping")
              : consumed \in {Parser_consume(expr.p, TT("RightParen"),
                                  "Expect ')' after expression")}})
         : expr \in {Parser_expression(p)}})

\* if let Number(_) / String(_) = self.peek().token_type
Parser_primary_literal(p) ==
    Val({[p |-> p1, r |-> Ok(Literal(Parser_previous(p1)))]
         : p1 \in {Parser_advance(p)}})

Parser_primary(p) ==
    IF p.panic THEN [p |-> p, r |-> Err("panic")] ELSE
    Val({IF kw.matched
         THEN [p |-> kw.p, r |-> Ok(Literal(Parser_previous(kw.p)))]
         ELSE IF Parser_peek(kw.p).token_type.tag = "Number"
         THEN Parser_primary_literal(kw.p)
         ELSE IF Parser_peek(kw.p).token_type.tag = "String"
         THEN Parser_primary_literal(kw.p)
         ELSE Val({IF m.matched THEN Parser_grouping(m.p)
                   ELSE Fail(m.p, "primary", "expecting expression")
                   : m \in {Parser_match_token(kw.p, <<TT("LeftParen")>>)}})
         : kw \in {Parser_primary_keyword(p)}})

Parser_parse(p) == Parser_expression(p)

\* The Parser struct with the history fields, and back.
ParseState(pa, log, trace, panic) ==
    [current |-> pa.current, tokens |-> pa.tokens, log |-> log,
     trace |-> trace, panic |-> panic]

ParserOf(p) == [current |-> p.current, tokens |-> p.tokens]

----------------------------------------------------------------------------
(* Inputs *)

\* The character sets the source texts are drawn from.
CharSets ==
    {{"!", "=", "<", ">", "1", " "},
     {QUOTE, NL, "a", "1", " ", "@"},
     {"1", "0", ".", "-", "(", ")"},
     {"o", "r", "_", "1", " ", TAB},
     {"/", NL, CR, "*", "a", " "}}

SeqsUpTo(S, n) == UNION {[1..k -> S] : k \in 0..n}

Sources == UNION {SeqsUpTo(A, MaxSrcLen) : A \in CharSets}

\* The words the token sequences of the parser are scanned from.
WordSets ==
    {{<<"1">>, <<"=", "=">>, <<"<">>, <<"-">>, <<"*">>},
     {<<"1">>, <<"!">>, <<"-">>, <<"(">>, <<")">>},
     {<<"t", "r", "u", "e">>, <<QUOTE, "a", QUOTE>>, <<"n", "i", "l">>,
      <<"+">>, <<"/">>},
     {<<"f", "a", "l", "s", "e">>, <<">">>, <<">", "=">>, <<"<", "=">>,
      <<"!", "=">>, <<";">>}}

WordSeqs == UNION {SeqsUpTo(W, MaxWords) : W \in WordSets}

\* The words separated by single spaces.
RECURSIVE JoinWords(_)
JoinWords(ws) ==
    IF ws = <<>> THEN <<>>
    ELSE IF Len(ws) = 1 THEN ws[1]
    ELSE ws[1] \o <<" ">> \o JoinWords(Tail(ws))

NoParser == [current |-> 0, tokens |-> <<>>]

NoResult == [ok |-> FALSE, expr |-> NoExpr, msg |-> "no result"]

----------------------------------------------------------------------------
(* The pipeline: Scanner::new, scan_tokens, Parser::new, parse *)

Init ==
    /\ \E source \in Sources : scanner = Scanner_new(source)
    /\ stdout = <<>>
    /\ spans = <<>>
    /\ parser = NoParser
    /\ errlog = <<>>
    /\ calls = <<>>
    /\ result = NoResult
    /\ panicked = FALSE
    /\ pc = "scanning"

\* One iteration of the loop of scan_tokens.
ScanToken ==
    /\ pc = "scanning"
    /\ ~panicked
    /\ ~Scanner_is_at_end(scanner)
    /\ \E s \in {Scanner_scan_step(ScanState(scanner, stdout, spans,
                                              panicked))} :
          /\ scanner' = ScannerOf(s)
          /\ stdout' = s.out
          /\ spans' = s.spans
          /\ panicked' = s.panic
    /\ UNCHANGED <<parser, errlog, calls, result, pc>>

\* The loop of scan_tokens ends and the EOF token is added.
ScanEnd ==
    /\ pc = "scanning"
    /\ ~panicked
    /\ Scanner_is_at_end(scanner)
    /\ \E s \in {Scanner_scan_end(ScanState(scanner, stdout, spans,
                                             panicked))} :
          /\ scanner' = ScannerOf(s)
          /\ stdout' = s.out
          /\ spans' = s.spans
          /\ panicked' = s.panic
    /\ pc' = "scanned"
    /\ UNCHANGED <<parser, errlog, calls, result>>

\* Parser::new(scanner.tokens).
ParserNew ==
    /\ pc = "scanned"
    /\ ~panicked
    /\ parser' = Parser_new(scanner.tokens)
    /\ pc' = "parsing"
    /\ UNCHANGED <<scanner, stdout, spans, errlog, calls, result,
                   panicked>>

\* parse().
Parse ==
    /\ pc = "parsing"
    /\ ~panicked
    /\ \E out \in {Parser_parse(ParseState(parser, errlog, calls, panicked))} :
          /\ parser' = ParserOf(out.p)
          /\ errlog' = out.p.log
          /\ calls' = out.p.trace
          /\ panicked' = out.p.panic
          /\ result' = IF out.p.panic THEN NoResult ELSE out.r
    /\ pc' = "done"
    /\ UNCHANGED <<scanner, stdout, spans>>

Next == ScanToken \/ ScanEnd \/ ParserNew \/ Parse

Spec == Init /\ [][Next]_vars

\* The parser on the tokens scanned from a sequence of words.
ParseInit ==
    /\ \E ws \in WordSeqs :
          \E s \in {Scanner_scan_tokens(
                        ScanState(Scanner_new(JoinWords(ws)), <<>>, <<>>,
                                  FALSE))} :
             /\ scanner = ScannerOf(s)
             /\ stdout = s.out
             /\ spans = s.spans
             /\ panicked = s.panic
    /\ parser = NoParser
    /\ errlog = <<>>
    /\ calls = <<>>
    /\ result = NoResult
    /\ pc = "scanned"

ParseNext == ParserNew \/ Parse

ParseSpec == ParseInit /\ [][ParseNext]_vars

\* The pipeline run to its end: the program is sequential, so a step that
\* can be taken is taken.
\* The source texts of the runs checked to their end.
LiveSources == UNION {SeqsUpTo(A, MaxLiveLen) : A \in CharSets}

LiveInit ==
    /\ scanner = Scanner_new(<<>>)
    /\ stdout = <<>>
    /\ spans = <<>>
    /\ parser = NoParser
    /\ errlog = <<>>
    /\ calls = <<>>
    /\ result = NoResult
    /\ panicked = FALSE
    /\ pc = "reading"

\* The source text is read and the scanner is built on it.
ReadSource ==
    /\ pc = "reading"
    /\ \E source \in LiveSources : scanner' = Scanner_new(source)
    /\ pc' = "scanning"
    /\ UNCHANGED <<stdout, spans, parser, errlog, calls, result, panicked>>

LiveNext == ReadSource \/ ScanToken \/ ScanEnd \/ ParserNew \/ Parse

LiveSpec == LiveInit /\ [][LiveNext]_vars /\ WF_vars(LiveNext)

----------------------------------------------------------------------------
(* Vocabulary of the properties *)

Tags(tokens) == [i \in 1..Len(tokens) |-> tokens[i].token_type.tag]

LastToken(tokens) == tokens[Len(tokens)]

\* The number of newline characters among the first n characters.
NewlinesBefore(source, n) == Cardinality({i \in 1..n : source[i] = NL})

ScanReturned == pc \in {"scanned", "parsing", "done"}

ParseReturned == pc = "done" /\ ~panicked

\* The token the parser cursor rests on.
CursorToken == TokenAt(parser.tokens, parser.current)

EqualityOps == {"BangEqual", "EqualEqual"}
ComparisonOps == {"Greater", "GreaterEqual", "Less", "LessEqual"}
AdditionOps == {"Plus", "Minus"}
MultiplicationOps == {"Star", "Slash"}
BinaryOps == EqualityOps \cup ComparisonOps \cup AdditionOps
                 \cup MultiplicationOps
PrefixOps == {"Bang", "Minus"}
LiteralTags == {"Number", "String", "True", "False", "Nil"}

\* The rung of the precedence ladder an operator or a node stands on.
BinLevel(tag) ==
    CASE tag \in EqualityOps -> 1
      [] tag \in ComparisonOps -> 2
      [] tag \in AdditionOps -> 3
      [] tag \in MultiplicationOps -> 4
      [] OTHER -> 0

NodeLevel(e) ==
    CASE e.node = "Binary" -> BinLevel(e.operator.token_type.tag)
      [] e.node = "Unary" -> 5
      [] OTHER -> 6

\* Every binary node has a left operand of its own rung or higher and a
\* right operand of a strictly higher rung; a unary operand is unary or
\* primary.
RECURSIVE Laddered(_)
Laddered(e) ==
    CASE e.node = "Binary" ->
             /\ BinLevel(e.operator.token_type.tag) \in 1..4
             /\ NodeLevel(e.left) >= BinLevel(e.operator.token_type.tag)
             /\ NodeLevel(e.right) > BinLevel(e.operator.token_type.tag)
             /\ Laddered(e.left)
             /\ Laddered(e.right)
      [] e.node = "Unary" ->
             /\ e.operator.token_type.tag \in PrefixOps
             /\ NodeLevel(e.right) >= 5
             /\ Laddered(e.right)
      [] e.node = "Grouping" -> Laddered(e.inner)
      [] e.node = "Literal" -> e.token.token_type.tag \in LiteralTags
      [] OTHER -> FALSE

\* The token kinds of a tree read from left to right.
RECURSIVE YieldTags(_)
YieldTags(e) ==
    CASE e.node = "Binary" ->
             YieldTags(e.left) \o <<e.operator.token_type.tag>>
                 \o YieldTags(e.right)
      [] e.node = "Unary" ->
             <<e.operator.token_type.tag>> \o YieldTags(e.right)
      [] e.node = "Grouping" ->
             <<"LeftParen">> \o YieldTags(e.inner) \o <<"RightParen">>
      [] e.node = "Literal" -> <<e.token.token_type.tag>>
      [] OTHER -> <<"None">>

\* No node of the tree lacks a child.
RECURSIVE Complete(_)
Complete(e) ==
    CASE e.node = "Binary" ->
             e.operator # NoToken /\ Complete(e.left) /\ Complete(e.right)
      [] e.node = "Unary" -> e.operator # NoToken /\ Complete(e.right)
      [] e.node = "Grouping" -> Complete(e.inner)
      [] e.node = "Literal" -> e.token # NoToken
      [] OTHER -> FALSE

\* The parser on the current token sequence with its cursor at index i.
ParserAt(i) ==
    ParseState([current |-> i, tokens |-> parser.tokens], <<>>, <<>>,
               FALSE)

\* The number of leading tokens that are prefix operators.
PrefixLen(tokens) ==
    IF \E i \in 1..Len(tokens) : tokens[i].token_type.tag \notin PrefixOps
    THEN (CHOOSE i \in 1..Len(tokens) :
              /\ tokens[i].token_type.tag \notin PrefixOps
              /\ \A j \in 1..(i - 1) : tokens[j].token_type.tag \in PrefixOps)
         - 1
    ELSE Len(tokens)

\* Unary(tokens[i], Unary(tokens[i + 1], ... Unary(tokens[k], operand))).
RECURSIVE NestUnary(_, _, _, _)
NestUnary(tokens, i, k, operand) ==
    IF i > k THEN operand
    ELSE Unary(tokens[i], NestUnary(tokens, i + 1, k, operand))

----------------------------------------------------------------------------
(* Properties *)

\* C1: whenever parse() returns Ok, the parser cursor rests on the trailing
\* EOF token: no token other than EOF is left unconsumed.
C1_ParseConsumesAllTokens ==
    (ParseReturned /\ result.ok) => CursorToken.token_type.tag = "EOF"

\* C2: when parse() fails, the message it returns is the message of the
\* first Err value built during the parse, the one of the innermost grammar
\* function that failed first.
C2_FirstErrorReturnedUnchanged ==
    (ParseReturned /\ ~result.ok) =>
        /\ errlog # <<>>
        /\ result.msg = errlog[1].msg

\* C3: for every input, with or without lexical errors, the tokens produced
\* by scan_tokens hold exactly one EOF token, and it is the last one.
C3_ExactlyOneEofLast ==
    /\ ScanReturned =>
          /\ Len(scanner.tokens) >= 1
          /\ LastToken(scanner.tokens).token_type.tag = "EOF"
          /\ \A i \in 1..(Len(scanner.tokens) - 1) :
                 scanner.tokens[i].token_type.tag # "EOF"
    /\ pc = "scanning" =>
          \A i \in 1..Len(scanner.tokens) :
              scanner.tokens[i].token_type.tag # "EOF"

C3_Witness ==
    /\ pc = "scanned"
    /\ stdout # <<>>
    /\ Len(scanner.tokens) >= 2

\* C4: the EOF token added by scan_tokens has an empty lexeme and carries
\* the final line number of the scanner.
C4_EofEmptyLexemeFinalLine ==
    ScanReturned =>
        /\ LastToken(scanner.tokens).lexeme = <<>>
        /\ LastToken(scanner.tokens).line = scanner.line

\* C5: the line of every token is 1 + the number of newline characters
\* before the first character of the token (for EOF: before the end of the
\* source), also for a String token whose content spans several lines.
C5_TokenLineIsStartLine ==
    \A i \in 1..Len(scanner.tokens) :
        scanner.tokens[i].line =
            1 + NewlinesBefore(scanner.source,
                    IF scanner.tokens[i].token_type.tag = "EOF"
                    THEN Len(scanner.source)
                    ELSE spans[i][1])

\* C6: a tree returned by parse() is the tree of the precedence ladder
\* equality < comparison < addition < multiplication < unary < primary over
\* the tokens consumed, with every binary level left-associative: a right
\* operand stands on a strictly higher rung than its operator, a left
\* operand on the same rung or higher.  `1 - 1 - 1` is
\* Binary(Binary(1, -, 1), -, 1) and `1 - 1 * 1` is
\* Binary(1, -, Binary(1, *, 1)).
C6_PrecedenceLadder ==
    (ParseReturned /\ result.ok) =>
        LET t == parser.tokens
            e == result.expr
        IN /\ Laddered(e)
           /\ YieldTags(e) = Tags(SubSeq(t, 1, parser.current))
           /\ (/\ Len(t) = 6
               /\ t[1].token_type.tag \in LiteralTags
               /\ t[3].token_type.tag \in LiteralTags
               /\ t[5].token_type.tag \in LiteralTags
               /\ BinLevel(t[2].token_type.tag) >= 1
               /\ BinLevel(t[4].token_type.tag) >= 1)
              => e = IF BinLevel(t[4].token_type.tag)
                          > BinLevel(t[2].token_type.tag)
                     THEN Binary(Literal(t[1]), t[2],
                                 Binary(Literal(t[3]), t[4], Literal(t[5])))
                     ELSE Binary(Binary(Literal(t[1]), t[2], Literal(t[3])),
                                 t[4], Literal(t[5]))

C6_Witness ==
    /\ ParseReturned
    /\ result.ok
    /\ Tags(parser.tokens)
           = <<"Number", "Minus", "Number", "Star", "Number", "EOF">>
    /\ result.expr.right.node = "Binary"

\* C7: once a grammar function has failed, parse() returns Err; a tree
\* that is returned has no missing child.  A literal followed by a trailing
\* binary operator, and a token sequence of EOF alone, are syntax errors.
C7_FailureNeverYieldsTree ==
    ParseReturned =>
        /\ errlog # <<>> => ~result.ok
        /\ result.ok => Complete(result.expr)
        /\ (/\ Len(parser.tokens) = 3
            /\ parser.tokens[1].token_type.tag \in LiteralTags
            /\ parser.tokens[2].token_type.tag \in BinaryOps) => ~result.ok
        /\ Len(parser.tokens) = 1 => ~result.ok

C7_Witness ==
    /\ ParseReturned
    /\ Tags(parser.tokens) = <<"Number", "Minus", "EOF">>
    /\ errlog # <<>>
    /\ ~result.ok

\* C8: at a `(`, when the expression after it parses and is followed by
\* `)`, primary returns the Grouping of that expression's tree with the
\* cursor just after the `)`; when it is followed by anything else (EOF
\* included), primary fails and parse() returns a syntax error.
C8_Grouping ==
    pc \in {"parsing", "done"} /\ ~panicked =>
        /\ \A i \in 1..Len(parser.tokens) :
               parser.tokens[i].token_type.tag = "LeftParen" =>
                   LET inner == Parser_expression(ParserAt(i))
                       prim == Parser_primary(ParserAt(i - 1))
                   IN inner.r.ok =>
                          IF Parser_peek(inner.p).token_type.tag = "RightParen"
                          THEN /\ prim.r = Ok(Grouping(inner.r.expr))
                               /\ prim.p.current = inner.p.current + 1
                          ELSE /\ ~prim.r.ok
                               /\ prim.p.current = inner.p.current
        /\ (pc = "done" /\ \E k \in 1..Len(errlog) : errlog[k].fn = "consume")
               => ~result.ok
        /\ (pc = "done" /\ Tags(parser.tokens) = <<"LeftParen", "Number",
                               "Minus", "Number", "RightParen", "EOF">>)
               => result = Ok(Grouping(Binary(Literal(parser.tokens[2]),
                                              parser.tokens[3],
                                              Literal(parser.tokens[4]))))

C8_Witness ==
    /\ ParseReturned
    /\ result.ok
    /\ result.expr.node = "Grouping"
    /\ result.expr.inner.node = "Binary"
    /\ CursorToken.token_type.tag = "EOF"

\* C9: k >= 1 prefix operators followed by a primary parse to k nested
\* Unary nodes in source order, the first operator outermost, around the
\* tree of the primary.
C9_UnaryChain ==
    pc \in {"parsing", "done"} /\ ~panicked =>
        LET t == parser.tokens
            k == PrefixLen(t)
            prim == Parser_primary(ParserAt(k))
            un == Parser_unary(ParserAt(0))
        IN (k >= 1 /\ prim.r.ok) =>
               /\ un.r = Ok(NestUnary(t, 1, k, prim.r.expr))
               /\ un.p.current = prim.p.current
               /\ (pc = "done" /\ Parser_is_at_end(prim.p)) => result = un.r

C9_Witness ==
    /\ ParseReturned
    /\ result.ok
    /\ PrefixLen(parser.tokens) >= 2
    /\ parser.tokens[1].token_type.tag # parser.tokens[2].token_type.tag
    /\ result.expr.node = "Unary"
    /\ result.expr.right.node = "Unary"
    /\ result.expr.operator = parser.tokens[1]

\* The token kind scan_token must produce for a character of a
\* two-character operator.
TwoCharStarts == {"!", "=", "<", ">"}

OperatorKind(c, followed) ==
    CASE c = "!" -> IF followed THEN "BangEqual" ELSE "Bang"
      [] c = "=" -> IF followed THEN "EqualEqual" ELSE "Equal"
      [] c = "<" -> IF followed THEN "LessEqual" ELSE "Less"
      [] c = ">" -> IF followed THEN "GreaterEqual" ELSE "Greater"

\* C10: when the scanner stands on `!`, `=`, `<` or `>`, its next step
\* consumes two characters and adds exactly one token of the two-character
\* kind if the next character is `=`, and otherwise consumes one character
\* and adds the bare kind; the source `!=` scans to BangEqual, EOF.
C10_MaximalMunch ==
    [][ /\ (/\ pc = "scanning"
            /\ ~Scanner_is_at_end(scanner)
            /\ CharAt(scanner.source, scanner.current) \in TwoCharStarts)
           => LET c == CharAt(scanner.source, scanner.current)
                  followed == CharAt(scanner.source, scanner.current + 1) = "="
                  n == IF followed THEN 2 ELSE 1
              IN /\ scanner'.current = scanner.current + n
                 /\ scanner'.tokens =
                        Append(scanner.tokens,
                               Token_new(TT(OperatorKind(c, followed)),
                                         SubSeq(scanner.source,
                                                scanner.current + 1,
                                                scanner.current + n),
                                         scanner.line))
        /\ (pc' = "scanned" /\ scanner.source = <<"!", "=">>)
           => Tags(scanner'.tokens) = <<"BangEqual", "EOF">>
      ]_vars

C10_Witness ==
    /\ pc = "scanned"
    /\ \E i \in 1..Len(scanner.tokens) :
           /\ scanner.tokens[i].token_type.tag
                  \in {"BangEqual", "EqualEqual", "LessEqual", "GreaterEqual"}
           /\ scanner.tokens[i].lexeme[2] = "="

\* The number of digits of source from index i on.
RECURSIVE DigitRun(_, _)
DigitRun(source, i) ==
    IF CharAt(source, i) \in Digits THEN 1 + DigitRun(source, i + 1) ELSE 0

\* Where a number literal that starts at index i must end: after its digits,
\* and after a dot and the digits behind it when a digit follows the dot.
NumberEnd(source, i) ==
    LET a == i + DigitRun(source, i) IN
    IF CharAt(source, a) = "." /\ CharAt(source, a + 1) \in Digits
    THEN a + 1 + DigitRun(source, a + 1)
    ELSE a

\* C11: when the scanner stands on a digit, its next step adds exactly one
\* Number token whose lexeme is the maximal digit run, extended by a dot and
\* the maximal digit run behind it only when a digit follows the dot; the
\* source `1.` scans to Number(1), Dot, EOF and `1.5` to Number(1.5), EOF.
C11_NumberLiteral ==
    [][ /\ (/\ pc = "scanning"
            /\ ~Scanner_is_at_end(scanner)
            /\ CharAt(scanner.source, scanner.current) \in Digits)
           => LET end == NumberEnd(scanner.source, scanner.current) IN
              /\ scanner'.current = end
              /\ Len(scanner'.tokens) = Len(scanner.tokens) + 1
              /\ SubSeq(scanner'.tokens, 1, Len(scanner.tokens))
                     = scanner.tokens
              /\ LastToken(scanner'.tokens).token_type.tag = "Number"
              /\ LastToken(scanner'.tokens).lexeme
                     = SubSeq(scanner.source, scanner.current + 1, end)
              /\ stdout' = stdout
        /\ (pc' = "scanned" /\ scanner.source = <<"1", ".">>)
           => /\ Tags(scanner'.tokens) = <<"Number", "Dot", "EOF">>
              /\ scanner'.tokens[1].token_type.val = <<1, 1>>
        /\ (pc' = "scanned" /\ scanner.source = <<"1", ".", "5">>)
           => /\ Tags(scanner'.tokens) = <<"Number", "EOF">>
              /\ scanner'.tokens[1].token_type.val = <<15, 10>>
      ]_vars

C11_Witness ==
    /\ pc = "scanned"
    /\ Len(scanner.source) = 4
    /\ Tags(scanner.tokens) = <<"Number", "Dot", "EOF">>
    /\ scanner.tokens[1].lexeme = <<"1", ".", "0">>

\* The indices of the quotes of source behind index i.
QuotesAfter(source, i) ==
    {j \in (i + 1)..(Len(source) - 1) : CharAt(source, j) = QUOTE}

\* The least element of a non-empty set of integers.
Least(S) == CHOOSE j \in S : \A k \in S : j <= k

\* C12: when the scanner stands on a quote that has a later quote, its next
\* step adds exactly one String token whose text is the characters strictly
\* between the two quotes and prints nothing; when no quote follows, the step
\* prints one unterminated-string error, adds no token and consumes the rest
\* of the source, and the scan then ends with the EOF token.
C12_StringLiteral ==
    [][ /\ (/\ pc = "scanning"
            /\ ~Scanner_is_at_end(scanner)
            /\ CharAt(scanner.source, scanner.current) = QUOTE)
           => LET open == scanner.current
                  later == QuotesAfter(scanner.source, open)
              IN IF later # {}
                 THEN LET close == Least(later) IN
                      /\ scanner'.current = close + 1
                      /\ Len(scanner'.tokens) = Len(scanner.tokens) + 1
                      /\ SubSeq(scanner'.tokens, 1, Len(scanner.tokens))
                             = scanner.tokens
                      /\ LastToken(scanner'.tokens).token_type
                             = TTPayload("String",
                                   SubSeq(scanner.source, open + 2, close))
                      /\ LastToken(scanner'.tokens).lexeme
                             = SubSeq(scanner.source, open + 1, close + 1)
                      /\ stdout' = stdout
                 ELSE /\ scanner'.tokens = scanner.tokens
                      /\ scanner'.current = Len(scanner.source)
                      /\ Len(stdout') = Len(stdout) + 1
                      /\ SubSeq(stdout', 1, Len(stdout)) = stdout
                      /\ stdout'[Len(stdout')].message
                             = "Unterminated string."
                      /\ pc' = "scanning"
                      /\ ~panicked'
        /\ pc' = "scanned"
           => LastToken(scanner'.tokens).token_type.tag = "EOF"
      ]_vars

C12_Witness ==
    /\ pc = "scanned"
    /\ Tags(scanner.tokens) = <<"String", "EOF">>
    /\ scanner.tokens[1].token_type.val = <<"a">>
    /\ Len(stdout) = 1
    /\ stdout[1].message = "Unterminated string."

\* The number of letters, digits and underscores of source from index i on.
RECURSIVE WordRun(_, _)
WordRun(source, i) ==
    IF CharAt(source, i) \in Letters \cup Digits \cup {"_"}
    THEN 1 + WordRun(source, i + 1)
    ELSE 0

KeywordTags ==
    {"And", "Class", "Else", "False", "For", "Fun", "If", "Nil", "Or",
     "Print", "Return", "Super", "This", "True", "Var", "While"}

\* C13: when the scanner stands on a letter or an underscore, its next step
\* adds exactly one token whose lexeme is the maximal run of letters, digits
\* and underscores; the token is the keyword of the run when the whole run is
\* one of the 16 reserved words (`or` is Or) and Identifier carrying the run
\* otherwise (`orr`, `or1` and `_or` are Identifiers).
C13_IdentifierOrKeyword ==
    [][ (/\ pc = "scanning"
         /\ ~Scanner_is_at_end(scanner)
         /\ CharAt(scanner.source, scanner.current) \in Letters \cup {"_"})
        => LET end == scanner.current
                        + WordRun(scanner.source, scanner.current)
               run == SubSeq(scanner.source, scanner.current + 1, end)
               kind == LastToken(scanner'.tokens).token_type
           IN /\ scanner'.current = end
              /\ Len(scanner'.tokens) = Len(scanner.tokens) + 1
              /\ SubSeq(scanner'.tokens, 1, Len(scanner.tokens))
                     = scanner.tokens
              /\ LastToken(scanner'.tokens).lexeme = run
              /\ stdout' = stdout
              /\ Cardinality(reserved) = 16
              /\ {e[2] : e \in reserved} = KeywordTags
              /\ kind.tag \in KeywordTags
                     <=> \E e \in reserved : e[1] = run
              /\ kind.tag \in KeywordTags
                     => <<run, kind.tag>> \in reserved
              /\ kind.tag \notin KeywordTags
                     => kind = TTPayload("Identifier", run)
              /\ run = <<"o", "r">> => kind = TT("Or")
              /\ run \in {<<"o", "r", "r">>, <<"o", "r", "1">>,
                          <<"_", "o", "r">>}
                     => kind.tag = "Identifier"
      ]_vars

C13_Witness ==
    /\ pc = "scanned"
    /\ \E i \in 1..Len(scanner.tokens) :
          /\ scanner.tokens[i].token_type.tag = "Identifier"
          /\ Len(scanner.tokens[i].token_type.val) = 3
          /\ SubSeq(scanner.tokens[i].token_type.val, 1, 2) = <<"o", "r">>

\* The tokens before EOF, by position in scanner.tokens.
Lexical == {i \in 1..Len(scanner.tokens) :
               scanner.tokens[i].token_type.tag # "EOF"}

\* Index k of the source lies in the slice of a token before EOF.
InSlice(k) == \E i \in Lexical : spans[i][1] <= k /\ k < spans[i][2]

Blank == {" ", TAB, CR, NL}

\* Index k lies in a comment: two slashes outside every slice stand at or
\* before it, with no newline from the slashes up to k.
InComment(k) ==
    \E c \in 0..k :
       /\ CharAt(scanner.source, c) = "/"
       /\ CharAt(scanner.source, c + 1) = "/"
       /\ ~InSlice(c) /\ ~InSlice(c + 1)
       /\ \A j \in c..k : CharAt(scanner.source, j) # NL

\* C14: every token before EOF has a non-empty lexeme equal to
\* source[start..current] of its add_token call; these slices are disjoint
\* and in increasing order; and while no error has been printed, every
\* scanned character outside the slices is a space, a tab, a carriage return,
\* a newline or part of a `//` comment.
C14_LexemesAreSourceSlices ==
    /\ Len(spans) = Len(scanner.tokens)
    /\ \A i \in Lexical :
          /\ 0 <= spans[i][1]
          /\ spans[i][1] < spans[i][2]
          /\ spans[i][2] <= Len(scanner.source)
          /\ scanner.tokens[i].lexeme # <<>>
          /\ scanner.tokens[i].lexeme
                 = SubSeq(scanner.source, spans[i][1] + 1, spans[i][2])
    /\ \A i, j \in Lexical : i < j => spans[i][2] <= spans[j][1]
    /\ stdout = <<>>
          => \A k \in 0..(scanner.current - 1) :
                \/ InSlice(k)
                \/ CharAt(scanner.source, k) \in Blank
                \/ InComment(k)

C14_Witness ==
    /\ pc = "scanned"
    /\ stdout = <<>>
    /\ Cardinality(Lexical) = 2
    /\ \E k \in 0..(Len(scanner.source) - 1) : ~InSlice(k) /\ InComment(k)

\* The characters scan_token has an arm for.
Punctuation ==
    {"(", ")", "{", "}", ",", ".", "-", "+", ";", "*", "!", "=", "<", ">",
     "/"}

KnownChars ==
    Punctuation \cup Blank \cup {QUOTE} \cup Digits \cup Letters \cup {"_"}

\* The tokens of a scan of the source from index i on, begun on a line.
TokensFrom(source, i, line) ==
    Scanner_scan_tokens(
        ScanState([Scanner_new(SubSeq(source, i + 1, Len(source)))
                       EXCEPT !.line = line],
                  <<>>, <<>>, FALSE)).tokens

\* The tokens the scan will have returned when it goes on from a state.
TokensOnward(sc) ==
    Scanner_scan_tokens(ScanState(sc, <<>>, <<>>, FALSE)).tokens

\* C15: when the scanner stands on a character scan_token has no arm for,
\* its next step prints exactly one unknown-character error, adds no token,
\* consumes that one character and keeps the line, and the scan goes on: the
\* tokens it returns are the tokens it had followed by the tokens of a scan
\* that starts right after the character on the same line.
C15_UnknownCharacterSkipped ==
    [][ (/\ pc = "scanning"
         /\ ~Scanner_is_at_end(scanner)
         /\ CharAt(scanner.source, scanner.current) \notin KnownChars)
        => /\ stdout' = Append(stdout, [line |-> scanner.line,
                                        message |-> "Unknown character"])
           /\ scanner'.tokens = scanner.tokens
           /\ scanner'.current = scanner.current + 1
           /\ scanner'.line = scanner.line
           /\ pc' = "scanning"
           /\ ~panicked'
           /\ TokensOnward(scanner')
                  = scanner.tokens
                        \o TokensFrom(scanner.source, scanner.current + 1,
                                      scanner.line)
      ]_vars

\* C16: the scanner never panics: until the parser runs no index or slice
\* has been out of range, 0 <= start <= current <= len(source) in every
\* state, and every slice add_token has taken lies within the source and has
\* a non-negative length.
C16_ScannerNeverPanics ==
    /\ pc \in {"scanning", "scanned", "parsing"} => ~panicked
    /\ 0 <= scanner.start
    /\ scanner.start <= scanner.current
    /\ scanner.current <= Len(scanner.source)
    /\ \A i \in 1..Len(spans) :
          /\ 0 <= spans[i][1]
          /\ spans[i][1] <= spans[i][2]
          /\ spans[i][2] <= Len(scanner.source)

C16_Witness ==
    /\ pc = "scanned"
    /\ ~panicked
    /\ scanner.current = Len(scanner.source)
    /\ Tags(scanner.tokens) = <<"String", "EOF">>
    /\ scanner.tokens[1].token_type.val = <<>>
    /\ Len(stdout) = 1
    /\ stdout[1].message = "Unterminated string."

\* The positions in calls of the entries to function fn.
Entries(fn) ==
    {k \in 1..Len(calls) : calls[k].ev = "enter" /\ calls[k].fn = fn}

Rounds == {k \in 1..Len(calls) : calls[k].ev = "round"}

\* Every round of an operator loop comes right after a move of the cursor
\* by one token, and the cursor is larger at every later entry to unary, and
\* at every later entry to expression, than at the entry before.
ParserProgress ==
    /\ \A k \in Rounds :
          /\ k > 1
          /\ calls[k - 1].ev = "advance"
          /\ calls[k - 1].to = calls[k - 1].at + 1
    /\ \A fn \in {"unary", "expression"} :
          \A i, j \in Entries(fn) : i < j => calls[i].at < calls[j].at

\* C17: the pipeline terminates: every iteration of the loop of scan_tokens
\* consumes at least one character, every loop round and every re-entry to
\* unary or expression in parse() follows the consumption of a token, and
\* every run reaches the return of parse().
C17_Terminates ==
    /\ [][(pc = "scanning" /\ pc' = "scanning")
              => scanner'.current > scanner.current]_vars
    /\ []ParserProgress
    /\ <>(pc = "done")

C17_Witness ==
    /\ pc = "done"
    /\ scanner.current = Len(scanner.source)
    /\ Len(scanner.tokens) = 4
    /\ Cardinality(Entries("unary")) = 2
    /\ Rounds # {}

\* C18: the parser stops at the first error: when parse() returns Err, the
\* cursor is where it was when the first Err value was built.
C18_StopsAtFirstError ==
    (ParseReturned /\ ~result.ok)
        => /\ errlog # <<>>
           /\ parser.current = errlog[1].at

\* The index of the first EOF token of the parser's tokens.
EofIndex ==
    Least({i \in 0..(Len(parser.tokens) - 1) :
              parser.tokens[i + 1].token_type.tag = "EOF"})

\* C19: on tokens that end with EOF, no token read of the parser is out of
\* range; the cursor, at every entry, loop round and move of parse() and at
\* its return, is at most the index of the first EOF token; and every
\* advance(), whose result is previous(), leaves the cursor at 1 or more.
C19_CursorWithinTokens ==
    pc \in {"parsing", "done"}
        => /\ ~panicked
           /\ 0 <= parser.current
           /\ parser.current <= EofIndex
           /\ \A k \in 1..Len(calls) :
                 /\ 0 <= calls[k].at
                 /\ calls[k].at <= calls[k].to
                 /\ calls[k].to <= EofIndex
                 /\ calls[k].ev = "advance" => calls[k].to >= 1

C19_Witness ==
    /\ pc = "done"
    /\ ~panicked
    /\ EofIndex >= 3
    /\ parser.current = EofIndex
    /\ \E k \in 1..Len(calls) :
          calls[k].ev = "advance" /\ calls[k].to = EofIndex

\* Every node of the tree e is one of the four kinds, with a token of a
\* kind its place allows.
RECURSIVE WellFormed(_)
WellFormed(e) ==
    CASE e.node = "Literal" ->
             e.token.token_type.tag
                 \in {"Number", "String", "True", "False", "Nil"}
      [] e.node = "Unary" ->
             /\ e.operator.token_type.tag \in {"Bang", "Minus"}
             /\ WellFormed(e.right)
      [] e.node = "Binary" ->
             /\ e.operator.token_type.tag
                    \in {"BangEqual", "EqualEqual", "Greater", "GreaterEqual",
                         "Less", "LessEqual", "Plus", "Minus", "Star",
                         "Slash"}
             /\ WellFormed(e.left)
             /\ WellFormed(e.right)
      [] e.node = "Grouping" -> WellFormed(e.inner)
      [] OTHER -> FALSE

\* The number of nodes of the tree e.
RECURSIVE Size(_)
Size(e) ==
    CASE e.node = "Unary" -> 1 + Size(e.right)
      [] e.node = "Binary" -> 1 + Size(e.left) + Size(e.right)
      [] e.node = "Grouping" -> 1 + Size(e.inner)
      [] OTHER -> 1

\* C20: every tree parse() returns is well-formed: a Literal holds a Number,
\* String, True, False or Nil token, the operator of a Unary is Bang or
\* Minus, the operator of a Binary is one of the ten binary operators, and
\* no other token is in the tree.
C20_TreesAreWellFormed ==
    (ParseReturned /\ result.ok) => WellFormed(result.expr)

C20_Witness ==
    /\ ParseReturned
    /\ result.ok
    /\ Size(result.expr) >= 3
    /\ parser.current < EofIndex
    /\ CursorToken.token_type.tag = "Semicolon"

\* The index of the first newline of source at or behind index i, the length
\* of the source when there is none.
LineEnd(source, i) ==
    LET nls == {j \in i..(Len(source) - 1) : CharAt(source, j) = NL}
    IN IF nls = {} THEN Len(source) ELSE Least(nls)

\* C21: when the scanner stands on `//`, its next step consumes up to but
\* not including the next newline (or to the end), adds no token and keeps
\* the line; on a `/` not followed by `/` it adds Slash; on a newline it
\* consumes the newline, adds no token and raises the line by one, also right
\* after a comment; on a space, a tab or a carriage return it consumes the
\* character, adds no token and keeps the line.
C21_CommentsAndBlanks ==
    [][ (pc = "scanning" /\ ~Scanner_is_at_end(scanner))
        => LET c == CharAt(scanner.source, scanner.current)
               next == CharAt(scanner.source, scanner.current + 1)
           IN /\ (c = "/" /\ next = "/")
                 => /\ scanner'.current
                           = LineEnd(scanner.source, scanner.current + 2)
                    /\ scanner'.tokens = scanner.tokens
                    /\ scanner'.line = scanner.line
                    /\ stdout' = stdout
                    /\ pc' = "scanning"
              /\ (c = "/" /\ next # "/")
                 => /\ scanner'.current = scanner.current + 1
                    /\ scanner'.tokens
                           = Append(scanner.tokens,
                                    Token_new(TT("Slash"), <<"/">>,
                                              scanner.line))
                    /\ scanner'.line = scanner.line
                    /\ stdout' = stdout
              /\ c = NL
                 => /\ scanner'.current = scanner.current + 1
                    /\ scanner'.tokens = scanner.tokens
                    /\ scanner'.line = scanner.line + 1
                    /\ stdout' = stdout
              /\ c \in {" ", TAB, CR}
                 => /\ scanner'.current = scanner.current + 1
                    /\ scanner'.tokens = scanner.tokens
                    /\ scanner'.line = scanner.line
                    /\ stdout' = stdout
      ]_vars

C21_Witness ==
    /\ pc = "scanned"
    /\ Len(scanner.source) = 4
    /\ SubSeq(scanner.source, 1, 2) = <<"/", "/">>
    /\ scanner.source[3] # NL
    /\ scanner.source[4] = NL
    /\ Tags(scanner.tokens) = <<"EOF">>
    /\ scanner.line = 2

\* C22: at every boundary between iterations of the loop of scan_tokens, and
\* when it has returned, line is 1 plus the number of newlines among the
\* characters consumed so far, source[0..current], wherever the newlines
\* stood: between tokens, in a terminated or in an unterminated string.
C22_LineCountsNewlines ==
    pc \in {"scanning", "scanned", "parsing", "done"}
        => scanner.line
               = 1 + NewlinesBefore(scanner.source, scanner.current)

C22_Witness ==
    /\ pc = "scanned"
    /\ scanner.line = 3
    /\ Len(stdout) = 1
    /\ stdout[1].message = "Unterminated string."
    /\ Tags(scanner.tokens) = <<"EOF">>
    /\ scanner.source[1] = QUOTE

\* The lists of alternatives parse() hands to match_token, and the one kind
\* it hands to consume.
MatchLists ==
    {<<TT("BangEqual"), TT("EqualEqual")>>,
     <<TT("Greater"), TT("GreaterEqual"), TT("Less"), TT("LessEqual")>>,
     <<TT("Plus"), TT("Minus")>>,
     <<TT("Star"), TT("Slash")>>,
     <<TT("Bang"), TT("Minus")>>,
     <<TT("False"), TT("True"), TT("Nil")>>,
     <<TT("LeftParen")>>,
     <<TT("RightParen")>>}

\* The kind of the token at index i.
KindAt(i) == TokenAt(parser.tokens, i).token_type.tag

\* C23: the parser never backtracks: over the whole of parse() the cursor
\* changes in advance() alone and there by exactly one; every advance()
\* comes right behind a check() that found the kind of the token under the
\* cursor (in match_token or consume) or behind primary's look at a Number
\* or String; and match_token, applied where parse() left the cursor to
\* every list parse() uses, takes one token, noting the first alternative
\* that is the kind under the cursor, and takes none, leaving the cursor,
\* when no alternative is.
C23_NoBacktracking ==
    pc \in {"parsing", "done"}
        => /\ calls # <<>>
                 => /\ calls[1].at = 0
                    /\ parser.current = calls[Len(calls)].to
           /\ \A k \in 1..(Len(calls) - 1) : calls[k + 1].at = calls[k].to
           /\ \A k \in 1..Len(calls) :
                 /\ calls[k].ev # "advance" => calls[k].to = calls[k].at
                 /\ calls[k].ev = "advance"
                       => /\ calls[k].to = calls[k].at + 1
                          /\ \/ KindAt(calls[k].at) \in {"Number", "String"}
                             \/ /\ k > 1
                                /\ calls[k - 1].ev \in {"match", "consume"}
                 /\ calls[k].ev \in {"match", "consume"}
                       => /\ calls[k].fn = KindAt(calls[k].at)
                          /\ k < Len(calls)
                          /\ calls[k + 1].ev = "advance"
           /\ pc = "done"
                 => \A i \in {parser.current} : \A types \in MatchLists :
                    LET m == Parser_match_token(ParserAt(i), types)
                        hits == {j \in 1..Len(types) :
                                    types[j].tag = KindAt(i)}
                    IN IF hits # {}
                       THEN /\ m.matched
                            /\ m.p.current = i + 1
                            /\ m.p.trace[1].fn = types[Least(hits)].tag
                       ELSE /\ ~m.matched
                            /\ m.p.current = i
                            /\ m.p.trace = <<>>

C23_Witness ==
    /\ pc = "done"
    /\ ~result.ok
    /\ parser.current >= 3
    /\ \E k \in 1..Len(calls) : calls[k].ev = "consume"
    /\ \E k \in 1..Len(calls) :
          calls[k].ev = "match" /\ calls[k].fn = "Minus"

====
